---- MODULE Spec2Model ----
(***************************************************************************)
(* Byte-level BPE tokenizer of src/gpt/tokenizer.py.                       *)
(*                                                                         *)
(* A text is a sequence of Unicode code points, a byte string a sequence   *)
(* of integers 0..255, a dict a function on its set of keys.  The         *)
(* tokenizer object is built by Construct (Tokenizer.__init__) from the    *)
(* three constructor arguments; encode runs as a sequence of steps (one    *)
(* per pretoken and one per iteration of the merge loop), decode as one.   *)
(***************************************************************************)
EXTENDS Integers, Sequences, FiniteSets, TLC

VARIABLES
    arg_vocab,        \* constructor argument vocab: dict[int, bytes]
    arg_merges,       \* constructor argument merges: list[tuple[bytes, bytes]]
    arg_special,      \* constructor argument special_tokens: list[str]
    vocab,            \* self.vocab
    merges,           \* self.merges
    special_tokens,   \* self.special_tokens
    split_pattern,    \* self.split_pattern: the alternation, in order (<<>> is None)
    merge_ranks,      \* self.merge_ranks
    vocab_size,       \* self.vocab_size
    vocab_to_id,      \* self.vocab_to_id
    pc,               \* where the caller stands
    text,             \* encode: the argument
    words,            \* encode: the pretokens not yet merged
    out,              \* encode: the ids accumulated by sum(..., [])
    word,             \* _merge_word: the argument
    tokens,           \* _merge_word: tokens
    best_pair,        \* _merge_word: best_pair of the last iteration
    iters,            \* _merge_word: iterations of the while loop so far
    ids,              \* encode's return value / decode's argument
    decoded           \* decode's outcome

vars == <<arg_vocab, arg_merges, arg_special, vocab, merges, special_tokens,
          split_pattern, merge_ranks, vocab_size, vocab_to_id, pc, text, words,
          out, word, tokens, best_pair, iters, ids, decoded>>

config == <<arg_vocab, arg_merges, arg_special, vocab, merges, special_tokens,
            split_pattern, merge_ranks, vocab_size, vocab_to_id>>

----------------------------------------------------------------------------
(* Bounds of the model. *)

MaxTextLen == 3
MaxIdsLen == 2

(* The code points texts are drawn from: space, a, b, c and e-acute (a     *)
(* two-byte character), and the bytes of their UTF-8 encodings.            *)
Chars == {32, 97, 98, 99, 233}
Bytes == {32, 97, 98, 99, 195, 169}

BoundedSeq(S, n) == UNION {[1..k -> S] : k \in 0..n}
Range(f) == {f[x] : x \in DOMAIN f}

RECURSIVE Flatten(_)
Flatten(ss) == IF ss = <<>> THEN <<>> ELSE Head(ss) \o Flatten(Tail(ss))

----------------------------------------------------------------------------
(* str.encode("utf-8") and bytes.decode("utf-8", errors="replace"), for    *)
(* code points below U+0800 (one- and two-byte sequences).                 *)

Utf8EncodeChar(c) ==
    IF c < 128 THEN <<c>> ELSE <<192 + (c \div 64), 128 + (c % 64)>>

Utf8Encode(s) == Flatten([i \in 1..Len(s) |-> Utf8EncodeChar(s[i])])

ReplacementChar == 65533

RECURSIVE Latin1Decode(_)
Latin1Decode(bs) ==
    IF bs = <<>> THEN <<>> ELSE <<Head(bs)>> \o Latin1Decode(Tail(bs))

RECURSIVE Utf8Decode(_)
Utf8Decode(bs) ==
    IF bs = <<>> THEN <<>>
    ELSE LET b == Head(bs) IN
         IF b < 128 THEN <<b>> \o Utf8Decode(Tail(bs))
         ELSE IF b \in 194..223 /\ Len(bs) >= 2 /\ bs[2] \in 128..191
              THEN <<(b - 192) * 64 + (bs[2] - 128)>>
                   \o Utf8Decode(SubSeq(bs, 3, Len(bs)))
              ELSE <<ReplacementChar>> \o Utf8Decode(Tail(bs))

(* An outcome of a call: a value, or the exception raised. *)
Ok(v) == [st |-> "ok", val |-> v]
Raised == [st |-> "raised", val |-> <<>>]
NoOutcome == [st |-> "none", val |-> <<>>]

----------------------------------------------------------------------------
(* Tokenizer.__init__ *)

DictOf(seq) == [i \in 0..(Len(seq) - 1) |-> seq[i + 1]]
DictPut(d, k, x) == [i \in DOMAIN d \cup {k} |-> IF i = k THEN x ELSE d[i]]

(* for special_token in special_tokens: insert if absent (lines 82-85) *)
RECURSIVE InsertAlways(_, _)
InsertAlways(v, sp) ==
    IF sp = <<>> THEN v
    ELSE InsertAlways(DictPut(v, Cardinality(DOMAIN v), Utf8Encode(Head(sp))),
                      Tail(sp))

RECURSIVE InsertSpecialTokens(_, _)
InsertSpecialTokens(v, sp) ==
    IF sp = <<>> THEN v
    ELSE LET byte_encoded_special_token == Utf8Encode(Head(sp))
             v2 == IF byte_encoded_special_token \in Range(v) THEN v
                   ELSE DictPut(v, Cardinality(DOMAIN v), byte_encoded_special_token)
         IN  InsertSpecialTokens(v2, Tail(sp))

InsertByLenAscending(sorted, x) ==
    LET k == Cardinality({i \in 1..Len(sorted) : Len(sorted[i]) <= Len(x)})
    IN  SubSeq(sorted, 1, k) \o <<x>> \o SubSeq(sorted, k + 1, Len(sorted))

(* sorted(special_tokens, key=len, reverse=True): stable, longest first *)
InsertByLen(sorted, x) ==
    LET k == Cardinality({i \in 1..Len(sorted) : Len(sorted[i]) >= Len(x)})
    IN  SubSeq(sorted, 1, k) \o <<x>> \o SubSeq(sorted, k + 1, Len(sorted))

RECURSIVE SortInto(_, _)
SortInto(acc, sp) ==
    IF sp = <<>> THEN acc ELSE SortInto(InsertByLen(acc, Head(sp)), Tail(sp))

sorted_special_tokens(sp) == SortInto(<<>>, sp)

(* {merge: i for i, merge in enumerate(merges)}: a later item overwrites *)
MergeRanks(m) ==
    [p \in Range(m) |->
        (CHOOSE i \in DOMAIN m :
            m[i] = p /\ \A j \in DOMAIN m : m[j] = p => j <= i) - 1]

VocabToIdOfArgument(v) ==
    [b \in Range(arg_vocab) |-> CHOOSE k \in DOMAIN arg_vocab : arg_vocab[k] = b]

(* {v: k for k, v in self.vocab.items()}; the vocabulary is iterated in id order *)
VocabToId(v) ==
    [b \in Range(v) |->
        CHOOSE k \in DOMAIN v : v[k] = b /\ \A j \in DOMAIN v : v[j] = b => j <= k]


Construct ==
    /\ pc = "new"
    /\ vocab' = IF arg_special # <<>>
                THEN InsertSpecialTokens(arg_vocab, arg_special)
                ELSE arg_vocab
    /\ merges' = arg_merges
    /\ special_tokens' = arg_special
    /\ split_pattern' = IF arg_special # <<>>
                        THEN sorted_special_tokens(arg_special)
                        ELSE <<>>
    /\ merge_ranks' = MergeRanks(arg_merges)
    /\ vocab_size' = Cardinality(DOMAIN vocab')
    /\ vocab_to_id' = VocabToId(vocab')
    /\ pc' = "ready"
    /\ UNCHANGED <<arg_vocab, arg_merges, arg_special, text, words, out, word,
                   tokens, best_pair, iters, ids, decoded>>

----------------------------------------------------------------------------
(* The pretokenization pattern (PRETOKENIZE_REGEX of gpt/bpe.py):          *)
(*    ?\p{L}+ | ?\p{N}+ | ?[^\s\p{L}\p{N}]+ | \s+(?!\S) | \s+             *)
(* matched the way re.finditer does, alternatives in order, each greedy.   *)

ClassOf(c) ==
    IF c \in {9, 10, 13, 32} THEN "S"
    ELSE IF c \in 48..57 THEN "N"
    ELSE IF c \in (65..90) \cup (97..122) \cup (192..214) \cup (216..246) THEN "L"
    ELSE "O"

RECURSIVE RunLen(_, _, _)
RunLen(s, i, X) ==
    IF i > Len(s) \/ ClassOf(s[i]) # X THEN 0 ELSE 1 + RunLen(s, i + 1, X)

WordAt(s, i, X) ==
    IF ClassOf(s[i]) = X THEN RunLen(s, i, X)
    ELSE IF s[i] = 32 /\ i < Len(s) /\ ClassOf(s[i + 1]) = X
         THEN 1 + RunLen(s, i + 1, X)
         ELSE 0

SpaceAt(s, i) ==
    LET r == RunLen(s, i, "S") IN
    IF r = 0 THEN 0
    ELSE IF i + r > Len(s) THEN r
    ELSE IF r >= 2 THEN r - 1
    ELSE r

MatchLen(s, i) ==
    IF WordAt(s, i, "L") > 0 THEN WordAt(s, i, "L")
    ELSE IF WordAt(s, i, "N") > 0 THEN WordAt(s, i, "N")
    ELSE IF WordAt(s, i, "O") > 0 THEN WordAt(s, i, "O")
    ELSE SpaceAt(s, i)

RECURSIVE FindAllFrom(_, _)
FindAllFrom(s, i) ==
    IF i > Len(s) THEN <<>>
    ELSE LET m == MatchLen(s, i) IN
         IF m = 0 THEN FindAllFrom(s, i + 1)
         ELSE <<SubSeq(s, i, i + m - 1)>> \o FindAllFrom(s, i + m)

re_finditer(chunk) == FindAllFrom(chunk, 1)

----------------------------------------------------------------------------
(* Tokenizer.pretokenize *)

HasAt(s, i, T) ==
    /\ i + Len(T) - 1 <= Len(s)
    /\ SubSeq(s, i, i + Len(T) - 1) = T

(* the first alternative of the pattern that matches at i, 0 if none *)
FirstAlternative(pats, s, i) ==
    LET K == {k \in 1..Len(pats) : HasAt(s, i, pats[k])} IN
    IF K = {} THEN 0 ELSE CHOOSE k \in K : \A j \in K : k <= j

(* re.split with one capturing group: the pieces between the matches and   *)
(* the matches themselves, in order; i scans, g is where the piece began.  *)
RECURSIVE SplitFrom(_, _, _, _)
SplitFrom(pats, s, i, g) ==
    IF i > Len(s) THEN <<SubSeq(s, g, Len(s))>>
    ELSE LET k == FirstAlternative(pats, s, i) IN
         IF k = 0 THEN SplitFrom(pats, s, i + 1, g)
         ELSE <<SubSeq(s, g, i - 1), pats[k]>>
              \o SplitFrom(pats, s, i + Len(pats[k]), i + Len(pats[k]))

re_split(pats, s) == SplitFrom(pats, s, 1, 1)

NoSplit(t) == <<t>>

text_chunks(t) ==
    IF split_pattern # <<>> THEN re_split(split_pattern, t) ELSE <<t>>

(* [bytes([b]) for b in word.encode('utf-8')] *)
ByteUnits(w) == LET bs == Utf8Encode(w) IN [i \in 1..Len(bs) |-> <<bs[i]>>]

ChunkWords(chunk) ==
    IF chunk \in Range(special_tokens)
    THEN << <<Utf8Encode(chunk)>> >>
    ELSE LET pretokens == re_finditer(chunk) IN
         [k \in 1..Len(pretokens) |-> ByteUnits(pretokens[k])]

pretokenize(t) ==
    LET chunks == text_chunks(t) IN
    Flatten([k \in 1..Len(chunks) |-> ChunkWords(chunks[k])])

----------------------------------------------------------------------------
(* get_pairs and Tokenizer._merge_word *)

get_pairs(pretoken) ==
    [i \in 1..(Len(pretoken) - 1) |-> <<pretoken[i], pretoken[i + 1]>>]

InRanks(pair) == pair \in DOMAIN merge_ranks

merge_candidates(toks) == SelectSeq(get_pairs(toks), InRanks)

HighestRankPair(toks) ==
    LET C == Range(merge_candidates(toks)) IN
    CHOOSE p \in C : \A q \in C : merge_ranks[p] >= merge_ranks[q]

(* min(merge_candidates, key=lambda pair: self.merge_ranks[pair]) *)
BestPair(toks) ==
    LET C == Range(merge_candidates(toks)) IN
    CHOOSE p \in C : \A q \in C : merge_ranks[p] <= merge_ranks[q]

(* the inner while loop (lines 185-193), index counted from 1 *)
RECURSIVE ScanFrom(_, _, _)
ScanFrom(toks, bp, index) ==
    IF index > Len(toks) THEN <<>>
    ELSE IF index + 1 <= Len(toks) /\ <<toks[index], toks[index + 1]>> = bp
         THEN <<bp[1] \o bp[2]>> \o ScanFrom(toks, bp, index + 2)
         ELSE <<toks[index]>> \o ScanFrom(toks, bp, index + 1)

RECURSIVE ScanFromRight(_, _)
ScanFromRight(toks, bp) ==
    LET n == Len(toks) IN
    IF n = 0 THEN <<>>
    ELSE IF n >= 2 /\ <<toks[n - 1], toks[n]>> = bp
         THEN ScanFromRight(SubSeq(toks, 1, n - 2), bp) \o <<bp[1] \o bp[2]>>
         ELSE ScanFromRight(SubSeq(toks, 1, n - 1), bp) \o <<toks[n]>>

ScanWithoutMerging(toks, bp) == toks

new_tokens(toks, bp) == ScanFrom(toks, bp, 1)

(* the outer while True loop, run to its break *)
RECURSIVE MergeLoop(_)
MergeLoop(toks) ==
    IF merge_candidates(toks) = <<>> THEN toks
    ELSE MergeLoop(new_tokens(toks, BestPair(toks)))

(* [self.vocab_to_id[token] for token in tokens]; a missing key raises KeyError *)
IdsOf(toks) ==
    IF \A i \in 1..Len(toks) : toks[i] \in DOMAIN vocab_to_id
    THEN Ok([i \in 1..Len(toks) |-> vocab_to_id[toks[i]]])
    ELSE Raised

merge_word(w) == IdsOf(MergeLoop(w))

----------------------------------------------------------------------------
(* Tokenizer.encode and Tokenizer.decode as functions of their argument *)

RECURSIVE SumIds(_)
SumIds(ws) ==
    IF ws = <<>> THEN Ok(<<>>)
    ELSE LET h == merge_word(Head(ws)) IN
         IF h.st = "raised" THEN Raised
         ELSE LET r == SumIds(Tail(ws)) IN
              IF r.st = "raised" THEN Raised ELSE Ok(h.val \o r.val)

encode(t) == SumIds(pretokenize(t))

DecodeSkippingUnknown(l) ==
    LET known == SelectSeq(l, LAMBDA i : i \in DOMAIN vocab) IN
    Ok(Utf8Decode(Flatten([i \in 1..Len(known) |-> vocab[known[i]]])))

(* b"".join(self.vocab[id] for id in ids).decode("utf-8", errors="replace") *)
decode(l) ==
    IF \E i \in 1..Len(l) : l[i] \notin DOMAIN vocab THEN Raised
    ELSE Ok(Utf8Decode(Flatten([i \in 1..Len(l) |-> vocab[l[i]]])))

----------------------------------------------------------------------------
(* The calls, step by step. *)

Idle ==
    /\ text = <<>> /\ words = <<>> /\ out = <<>> /\ word = <<>>
    /\ tokens = <<>> /\ best_pair = <<>> /\ iters = 0 /\ ids = <<>>
    /\ decoded = NoOutcome

(* encode(text): word_iter = self.pretokenize(text) *)
EncodeCall(t) ==
    /\ pc = "ready"
    /\ text' = t
    /\ words' = pretokenize(t)
    /\ out' = <<>>
    /\ pc' = "encode"
    /\ UNCHANGED <<config, word, tokens, best_pair, iters, ids, decoded>>

(* the generator of line 208 calls self._merge_word(word): tokens = word[:] *)
MergeWordCall ==
    /\ pc = "encode"
    /\ words # <<>>
    /\ word' = Head(words)
    /\ tokens' = Head(words)
    /\ words' = Tail(words)
    /\ iters' = 0
    /\ best_pair' = <<>>
    /\ pc' = "merge"
    /\ UNCHANGED <<config, text, out, ids, decoded>>

(* one iteration of the while True loop that does not break *)
MergeIteration ==
    /\ pc = "merge"
    /\ merge_candidates(tokens) # <<>>
    /\ best_pair' = BestPair(tokens)
    /\ tokens' = new_tokens(tokens, best_pair')
    /\ iters' = iters + 1
    /\ UNCHANGED <<config, pc, text, words, out, word, ids, decoded>>

(* the break, and the return of the ids (or the KeyError of line 195) *)
MergeWordReturn ==
    /\ pc = "merge"
    /\ merge_candidates(tokens) = <<>>
    /\ IF IdsOf(tokens).st = "ok"
       THEN /\ out' = out \o IdsOf(tokens).val
            /\ pc' = "encode"
       ELSE /\ out' = out
            /\ pc' = "raised"
    /\ UNCHANGED <<config, text, words, word, tokens, best_pair, iters, ids,
                   decoded>>

(* the generator is exhausted: encode returns the sum *)
EncodeReturn ==
    /\ pc = "encode"
    /\ words = <<>>
    /\ ids' = out
    /\ pc' = "encoded"
    /\ UNCHANGED <<config, text, words, out, word, tokens, best_pair, iters,
                   decoded>>

(* decode applied to what encode returned *)
DecodeEncoded ==
    /\ pc = "encoded"
    /\ decoded' = decode(ids)
    /\ pc' = "roundtrip"
    /\ UNCHANGED <<config, text, words, out, word, tokens, best_pair, iters, ids>>

(* decode applied to any list of integers *)
DecodeCall(l) ==
    /\ pc = "ready"
    /\ ids' = l
    /\ decoded' = decode(l)
    /\ pc' = "decoded"
    /\ UNCHANGED <<config, text, words, out, word, tokens, best_pair, iters>>

(* the caller takes the outcome; the object is ready for the next call *)
Return ==
    /\ pc \in {"raised", "roundtrip", "decoded"}
    /\ pc' = "ready"
    /\ text' = <<>> /\ words' = <<>> /\ out' = <<>> /\ word' = <<>>
    /\ tokens' = <<>> /\ best_pair' = <<>> /\ iters' = 0 /\ ids' = <<>>
    /\ decoded' = NoOutcome
    /\ UNCHANGED config

----------------------------------------------------------------------------
(* The constructor arguments the model draws from. *)

Vocabs ==
    { DictOf(<< <<97>>, <<98>>, <<97, 98>>, <<98, 99>>, <<97, 98, 99>> >>),
      DictOf(<< <<32>>, <<97>>, <<98>>, <<99>>, <<169>>, <<195>>,
                <<97, 98>>, <<98, 99>>, <<97, 97>>, <<195, 169>> >>) }

MergeLists ==
    { << <<(<<97>>), (<<98>>)>>, <<(<<98>>), (<<99>>)>>, <<(<<97, 98>>), (<<99>>)>> >>,
      << <<(<<97>>), (<<98>>)>>, <<(<<98>>), (<<99>>)>>, <<(<<97>>), (<<98>>)>> >>,
      << <<(<<97>>), (<<97>>)>>, <<(<<195>>), (<<169>>)>> >>,
      << <<(<<98>>), (<<99>>)>>, <<(<<97>>), (<<98>>)>>, <<(<<97>>), (<<97>>)>> >>,
      <<>> }

SpecialLists == { <<>>, << <<99>>, <<99, 99>>, <<99, 99>> >>, << <<233>> >> }

Texts == BoundedSeq(Chars, MaxTextLen)

IdLists == BoundedSeq(DOMAIN vocab \cup {-1, vocab_size}, MaxIdsLen)

Init ==
    /\ arg_vocab \in Vocabs
    /\ arg_merges \in MergeLists
    /\ arg_special \in SpecialLists
    /\ vocab = <<>> /\ merges = <<>> /\ special_tokens = <<>>
    /\ split_pattern = <<>> /\ merge_ranks = <<>> /\ vocab_size = 0
    /\ vocab_to_id = <<>>
    /\ pc = "new"
    /\ Idle

Next ==
    \/ Construct
    \/ \E t \in Texts : EncodeCall(t)
    \/ MergeWordCall
    \/ MergeIteration
    \/ MergeWordReturn
    \/ EncodeReturn
    \/ DecodeEncoded
    \/ \E l \in IdLists : DecodeCall(l)
    \/ Return

Spec == Init /\ [][Next]_vars

(* A call that has begun runs on: the interpreter executes the loop. *)
FairSpec == Spec /\ WF_vars(MergeWordCall \/ MergeIteration \/ MergeWordReturn \/ EncodeReturn)

----------------------------------------------------------------------------
(* Properties. *)

Constructed == pc # "new"

AllSingleBytes == \A b \in Bytes : <<b>> \in Range(vocab)

MergesInVocab ==
    \A i \in DOMAIN merges : merges[i][1] \o merges[i][2] \in Range(vocab)

RoundTrips ==
    /\ pc # "raised"
    /\ pc = "roundtrip" => decoded = Ok(text)

(* C1, as stated: for every tokenizer whose vocabulary holds every single   *)
(* byte and for every text t, decode(encode(t)) = t.                        *)
C1_RoundTripAnyMerges == (Constructed /\ AllSingleBytes) => RoundTrips

(* C1, amended: for every tokenizer whose vocabulary holds every single     *)
(* byte and the concatenation of every merge rule, and for every text t,    *)
(* encode(t) does not raise and decode(encode(t)) = t.                      *)
C1_RoundTrip == (Constructed /\ AllSingleBytes /\ MergesInVocab) => RoundTrips

C1_Witness ==
    /\ pc = "roundtrip"
    /\ AllSingleBytes /\ MergesInVocab
    /\ text = <<97, 97, 233>>
    /\ ids = <<vocab_to_id[<<97, 97>>], vocab_to_id[<<195, 169>>]>>
    /\ decoded = Ok(text)

(* what the encode call in progress has come to *)
EncodeOutcome == IF pc = "raised" THEN Raised ELSE Ok(ids)

Around(x, m, y) ==
    IF x.st = "raised" \/ y.st = "raised" THEN Raised
    ELSE Ok(x.val \o m \o y.val)

(* text = a + S + b with Len(a) = k *)
SplitsAs(k, S) == HasAt(text, k + 1, S)

EncodedAround(k, S) ==
    EncodeOutcome =
        Around(encode(SubSeq(text, 1, k)),
               <<vocab_to_id[Utf8Encode(S)]>>,
               encode(SubSeq(text, k + 1 + Len(S), Len(text))))

(* no special token occurrence of a + S + b begins in a and reaches past    *)
(* it, and no longer special token begins where S does                      *)
ClearOfOthers(k, S) ==
    \A T \in Range(special_tokens) : \A p \in 1..Len(text) :
        HasAt(text, p, T) =>
            /\ ~(p <= k /\ p + Len(T) - 1 > k)
            /\ ~(p = k + 1 /\ Len(T) > Len(S))

(* C2, as stated: for every special token S and all texts a and b,          *)
(* encode(a + S + b) = encode(a) + [id of S] + encode(b).                   *)
C2_SpecialBoundaryAnyTexts ==
    pc \in {"encoded", "raised"} =>
        \A S \in Range(special_tokens) : \A k \in 0..Len(text) :
            SplitsAs(k, S) => EncodedAround(k, S)

(* C2, amended: the same equation for every special token S and all texts  *)
(* a and b such that no special token occurrence of a + S + b begins inside *)
(* a and ends past the end of a, and no special token longer than S occurs  *)
(* at the place of S.                                                       *)
C2_SpecialBoundary ==
    pc \in {"encoded", "raised"} =>
        \A S \in Range(special_tokens) : \A k \in 0..Len(text) :
            (SplitsAs(k, S) /\ ClearOfOthers(k, S)) => EncodedAround(k, S)

C2_Witness ==
    /\ pc = "encoded"
    /\ text = <<97, 98, 99>>
    /\ <<99>> \in Range(special_tokens)
    /\ << <<97, 98>>, <<99>> >> \in DOMAIN merge_ranks
    /\ ClearOfOthers(2, <<99>>)
    /\ ids = <<vocab_to_id[<<97, 98>>], vocab_to_id[<<99>>]>>

IsSubstring(x, y) == \E p \in 1..Len(y) : HasAt(y, p, x)

(* C3: when one special token is a prefix or substring of another, a text   *)
(* equal to the longer one encodes to exactly the id of the longer one.     *)
C3_LongestSpecialToken ==
    pc \in {"encoded", "raised"} =>
        \A L \in Range(special_tokens) : \A S \in Range(special_tokens) :
            (S # L /\ IsSubstring(S, L) /\ text = L) =>
                /\ pc = "encoded"
                /\ ids = <<vocab_to_id[Utf8Encode(L)]>>

C3_Witness ==
    /\ pc = "encoded"
    /\ text = <<99, 99>>
    /\ {<<99>>, <<99, 99>>} \subseteq Range(special_tokens)
    /\ ids = <<vocab_to_id[<<99, 99>>]>>
    /\ ids # <<vocab_to_id[<<99>>], vocab_to_id[<<99>>]>>

(* the step just taken is one iteration of the merge loop *)
Iterated == pc = "merge" /\ pc' = "merge" /\ iters' = iters + 1

RankedPositions ==
    {i \in 1..(Len(tokens) - 1) : <<tokens[i], tokens[i + 1]>> \in DOMAIN merge_ranks}

MergedLowestRank ==
    /\ \E i \in RankedPositions : best_pair' = <<tokens[i], tokens[i + 1]>>
    /\ \A j \in RankedPositions :
          merge_ranks[best_pair'] <= merge_ranks[<<tokens[j], tokens[j + 1]>>]
    /\ best_pair'[1] \o best_pair'[2] \in Range(tokens')

ExampleTokenizer ==
    /\ arg_vocab = DictOf(<< <<97>>, <<98>>, <<97, 98>>, <<98, 99>>, <<97, 98, 99>> >>)
    /\ arg_special = <<>>
    /\ merges = << <<(<<97>>), (<<98>>)>>, <<(<<98>>), (<<99>>)>>,
                   <<(<<97, 98>>), (<<99>>)>> >>

ExampleEncoded ==
    (ExampleTokenizer /\ pc \in {"encoded", "raised"} /\ text = <<97, 98, 99>>)
        => (pc = "encoded" /\ ids = <<4>>)

(* C4: every iteration of the merge loop merges the adjacent pair of the    *)
(* lowest rank among the adjacent pairs in the rank table; the example      *)
(* tokenizer encodes the pretoken a, b, c to [4].                           *)
C4_MergeRankPriority ==
    /\ [][Iterated => MergedLowestRank]_vars
    /\ []ExampleEncoded

C4_Witness ==
    /\ ExampleTokenizer
    /\ pc = "encoded"
    /\ text = <<97, 98, 99>>
    /\ iters = 2
    /\ ids = <<4>>

(* C5: decode raises when some id, wherever it stands, has no vocabulary    *)
(* entry; when every id has one it returns a string, valid UTF-8 or not.    *)
C5_DecodeUnknownId ==
    pc = "decoded" =>
        IF \E i \in 1..Len(ids) : ids[i] \notin DOMAIN vocab
        THEN decoded = Raised
        ELSE /\ decoded.st = "ok"
             /\ \A i \in 1..Len(decoded.val) : decoded.val[i] \in 0..65535

C5_Witness ==
    /\ pc = "decoded"
    /\ Len(ids) = 2
    /\ ids[1] \in DOMAIN vocab
    /\ ids[2] = vocab_size
    /\ decoded = Raised

EntriesOf(s) == {i \in DOMAIN vocab : vocab[i] = Utf8Encode(s)}

(* C6: construction keeps every entry of the supplied vocabulary, gives     *)
(* each special token that has no entry a new id, and leaves each special   *)
(* token, listed once or more, with exactly one entry.                      *)
C6_SpecialTokenInsertion ==
    Constructed =>
        /\ \A i \in DOMAIN arg_vocab : i \in DOMAIN vocab /\ vocab[i] = arg_vocab[i]
        /\ \A s \in Range(arg_special) : Cardinality(EntriesOf(s)) = 1
        /\ \A i \in DOMAIN vocab \ DOMAIN arg_vocab :
              /\ vocab[i] \notin Range(arg_vocab)
              /\ \E s \in Range(arg_special) : vocab[i] = Utf8Encode(s)

C6_Witness ==
    /\ pc = "ready"
    /\ Cardinality({i \in DOMAIN arg_special : arg_special[i] = <<99, 99>>}) = 2
    /\ <<99>> \in Range(arg_special) /\ <<99>> \in Range(arg_vocab)
    /\ <<99, 99>> \notin Range(arg_vocab)
    /\ DOMAIN vocab = DOMAIN arg_vocab \cup {Cardinality(DOMAIN arg_vocab)}
    /\ vocab[Cardinality(DOMAIN arg_vocab)] = <<99, 99>>

Bijective ==
    /\ DOMAIN vocab = 0..(Cardinality(DOMAIN vocab) - 1)
    /\ \A i \in DOMAIN vocab : \A j \in DOMAIN vocab : vocab[i] = vocab[j] => i = j
    /\ DOMAIN vocab_to_id = Range(vocab)
    /\ \A i \in DOMAIN vocab : vocab_to_id[vocab[i]] = i

(* C7: from construction on the vocabulary is a bijection between the ids   *)
(* 0..N-1 and byte sequences with vocab_to_id its inverse, and no call      *)
(* changes the vocabulary, vocab_to_id or the rank table.                   *)
C7_VocabularyBijection ==
    /\ [](Constructed => Bijective)
    /\ [][Constructed => UNCHANGED <<vocab, vocab_to_id, merge_ranks>>]_vars

C7_Witness ==
    /\ pc = "roundtrip"
    /\ <<99, 99>> \notin Range(arg_vocab)
    /\ <<99, 99>> \in DOMAIN vocab_to_id
    /\ vocab_to_id[<<99, 99>>] = vocab_size - 1
    /\ ids = <<vocab_size - 1>>
    /\ Bijective

(* the places where the winning pair begins, and those a left-to-right      *)
(* scan takes: a place is taken unless the one before it was                *)
PairPlaces(toks, bp) ==
    {i \in 1..(Len(toks) - 1) : <<toks[i], toks[i + 1]>> = bp}

Taken(toks, bp) ==
    CHOOSE G \in SUBSET PairPlaces(toks, bp) :
        \A i \in PairPlaces(toks, bp) : (i \in G) <=> (i - 1 \notin G)

Kept(toks, bp) == {i \in 1..Len(toks) : i - 1 \notin Taken(toks, bp)}

ReplacedLeftToRight(toks, bp, new) ==
    /\ Len(new) = Cardinality(Kept(toks, bp))
    /\ \A i \in Kept(toks, bp) :
          new[Cardinality({j \in Kept(toks, bp) : j <= i})] =
              IF i \in Taken(toks, bp) THEN toks[i] \o toks[i + 1] ELSE toks[i]

(* C8: one iteration replaces every non-overlapping occurrence of the       *)
(* winning pair, left to right, and keeps the other units in order;         *)
(* a, a, a under the rule (a, a) becomes aa, a.                             *)
C8_LeftToRightReplacement ==
    [][Iterated =>
          /\ ReplacedLeftToRight(tokens, best_pair', tokens')
          /\ (tokens = << <<97>>, <<97>>, <<97>> >> /\ best_pair' = << <<97>>, <<97>> >>)
                => tokens' = << <<97, 97>>, <<97>> >>]_vars

C8_Witness ==
    /\ pc = "merge"
    /\ word = << <<97>>, <<97>>, <<97>> >>
    /\ best_pair = << <<97>>, <<97>> >>
    /\ iters = 1
    /\ tokens = << <<97, 97>>, <<97>> >>

Terminal ==
    \/ Len(tokens) < 2
    \/ \A i \in 1..(Len(tokens) - 1) :
          <<tokens[i], tokens[i + 1]>> \notin DOMAIN merge_ranks

(* C9: each iteration of the merge loop leaves fewer units, at most         *)
(* len(pretoken) - 1 iterations run, the loop is left only in a terminal    *)
(* state, and it is left.                                                   *)
C9_MergeLoopTerminates ==
    /\ [][Iterated => Len(tokens') < Len(tokens)]_vars
    /\ [](pc = "merge" => iters + Len(tokens) <= Len(word))
    /\ [][(pc = "merge" /\ pc' # "merge") => Terminal]_vars
    /\ (pc = "merge") ~> (pc # "merge")

C9_Witness ==
    /\ pc = "merge"
    /\ Len(word) = 3
    /\ iters = 2
    /\ Len(tokens) = 1

FirstIndex(p) == CHOOSE i \in DOMAIN merges :
    merges[i] = p /\ \A j \in DOMAIN merges : merges[j] = p => i <= j

(* C10: the rank of a pair is the index of its first occurrence in the      *)
(* merge-rule list.                                                         *)
C10_RankIsFirstOccurrence ==
    Constructed =>
        \A p \in Range(merges) :
            p \in DOMAIN merge_ranks /\ merge_ranks[p] = FirstIndex(p) - 1

====
